---- MODULE Spec2Model ----
(***************************************************************************)
(* Model of the response reader of Sodaq_Ublox (src/src/Sodaq_Ublox.cpp):  *)
(* is_timedout, timedRead, readBytesUntil, readLn and readResponse.        *)
(*                                                                         *)
(* Bytes are one-character strings; NUL, CR and LF are named.  uint32_t    *)
(* and size_t values are pairs <<hi, lo>> of 16-bit halves, so that the    *)
(* arithmetic is exactly modulo 2^32.                                      *)
(***************************************************************************)
EXTENDS Integers, Sequences, FiniteSets, TLC

----------------------------------------------------------------------------
(* Bytes *)

NUL == "NUL"
CR  == "CR"
LF  == "LF"
\* a byte of memory nobody has initialised (neither NUL, CR nor LF)
JUNK == "?"

----------------------------------------------------------------------------
(* Bounds of the model *)

\* capacity of the line buffer (_inputBufferSize)
InputBufferSize == 14
\* largest outMaxSize tried
MaxOutSize == 6
\* largest number of lines the modem sends in one run
MaxLines == 2
\* milliseconds that pass in one step of the clock
TickMs == 125
\* clock steps the environment may take in one run
MaxTicks == 4
\* polls a timedRead that is called on its own makes at most without the
\* clock moving
MaxPolls == 3

----------------------------------------------------------------------------
(* 32-bit unsigned arithmetic *)

Half == 2^16

U32(n) == <<n \div Half, n % Half>>

Add32(a, b) ==
    LET lo == a[2] + b[2]
        hi == a[1] + b[1] + (lo \div Half)
    IN  <<hi % Half, lo % Half>>

Sub32(a, b) ==
    LET lo     == a[2] - b[2]
        borrow == IF lo < 0 THEN 1 ELSE 0
        hi     == a[1] - b[1] - borrow
    IN  <<hi % Half, lo % Half>>

Gt32(a, b) == a[1] > b[1] \/ (a[1] = b[1] /\ a[2] > b[2])

\* conversion of a 32-bit unsigned value to int (two's complement)
ToInt(a) == IF a[1] >= Half \div 2 THEN (a[1] - Half) * Half + a[2]
            ELSE a[1] * Half + a[2]

SizeMax == <<Half - 1, Half - 1>>

----------------------------------------------------------------------------
(* Program constants *)

\* SODAQ_UBLOX_TERMINATOR, "\r\n"
Terminator == <<CR, LF>>
TerminatorLen == Len(Terminator)

\* the per-line timeout readResponse passes to readLn, in milliseconds
LineTimeoutMs == 250

\* marker strings of readResponse
StrAT       == <<"A", "T">>
StrOK       == <<"O", "K">>
StrERROR    == <<"E", "R", "R", "O", "R">>
StrCMEERROR == <<"+", "C", "M", "E", " ", "E", "R", "R", "O", "R", ":">>
StrCMSERROR == <<"+", "C", "M", "S", " ", "E", "R", "R", "O", "R", ":">>

\* GSMResponseTypes
GSMResponseOK      == "OK"
GSMResponseError   == "Error"
GSMResponseTimeout == "Timeout"
NoResponse         == "none"

----------------------------------------------------------------------------
(* Inputs *)

\* the prefix the caller expects; <<>> stands for NULL and for ""
PfxC == <<"+", "C">>
Prefixes == {<<>>, PfxC}

\* lines the modem may send, without their terminator
Lines ==
    { <<>>,
      StrAT,
      StrOK,
      StrERROR,
      <<"x">>,
      PfxC,
      PfxC \o <<"y", "z">> }

RECURSIVE SeqsUpTo(_, _)
SeqsUpTo(S, n) ==
    IF n = 0 THEN {<<>>}
    ELSE LET shorter == SeqsUpTo(S, n - 1)
         IN  shorter \cup {Append(q, l) : q \in shorter, l \in S}

\* the bytes on the wire for a sequence of lines
RECURSIVE Wire(_)
Wire(ls) == IF ls = <<>> THEN <<>>
            ELSE Head(ls) \o Terminator \o Wire(Tail(ls))

Streams == {Wire(ls) : ls \in SeqsUpTo(Lines, MaxLines)}

\* what uninitialised memory of the caller and of the heap may hold
Fills == {NUL, JUNK}

\* overall timeouts the caller may ask for, in milliseconds
Timeouts == {0, LineTimeoutMs, 2 * LineTimeoutMs}

\* values of the millisecond clock at the call: zero, and one clock step
\* before the 32-bit counter wraps
StartTimes == {U32(0), Sub32(U32(0), U32(TickMs))}

\* the (outBuffer == NULL, outMaxSize) pairs tried
OutArgs == {<<TRUE, MaxOutSize>>} \cup {<<FALSE, n>> : n \in 0 .. MaxOutSize}

\* Runs in which every byte is there when it is polled and the clock does not
\* move: all line sequences, all buffer arguments
DataRuns ==
    [ input : Streams, out : OutArgs, prefix : Prefixes, fill : {JUNK},
      front : {JUNK}, timeout : {U32(LineTimeoutMs)}, start : {U32(0)},
      ticks : {0} ]

\* a line whose content and CR just fit the line buffer, and one that does not fit
EdgeLine == [i \in 1 .. InputBufferSize - 2 |-> "x"]
LongLine == [i \in 1 .. InputBufferSize |-> "x"]
\* as many bytes as one readLn takes
FullLine == [i \in 1 .. InputBufferSize - 1 |-> "x"]

\* the example of a signal quality query
PfxCSQ  == <<"+", "C", "S", "Q", ":", " ">>
LineCSQ == PfxCSQ \o <<"1", "5", ",", "9", "9">>

\* Runs with the long lines and markers, the clock not moving
LongRuns ==
    [ input : {Wire(ls) : ls \in { <<StrCMEERROR \o <<" ">>>>, <<StrCMSERROR>>,
                                   <<EdgeLine, StrOK>>, <<LongLine, StrOK>>,
                                   <<FullLine \o StrOK>>, <<FullLine \o StrERROR>>,
                                   <<StrAT, LineCSQ, StrOK>> }},
      out : {<<FALSE, MaxOutSize>>}, prefix : {<<>>, PfxCSQ}, fill : Fills,
      front : {CR, JUNK}, timeout : {U32(LineTimeoutMs)}, start : {U32(0)},
      ticks : {0} ]

\* the line sequences of the runs in which the clock moves
TimedStreams ==
    {Wire(ls) : ls \in { <<>>, <<StrOK>>, <<PfxC \o <<"y", "z">>>>,
                         <<StrAT, StrOK>>, <<<<"x">>, <<"x">>>>, <<<<"x">> \o StrOK>>,
                         <<PfxC, StrERROR>> }}

\* Runs in which bytes may be late and the clock moves
TimedRuns ==
    [ input : TimedStreams, out : {<<FALSE, MaxOutSize \div 2>>, <<FALSE, MaxOutSize>>},
      prefix : Prefixes, fill : {JUNK}, front : {CR, JUNK},
      timeout : {U32(t) : t \in Timeouts}, start : StartTimes, ticks : {MaxTicks} ]

\* lines that begin with a marker, and prefixes such lines begin with
MarkerLines ==
    { StrAT \o <<"Z">>, StrOK \o <<"A", "Y">>, StrERROR, StrCMSERROR }
MarkerPrefixes == {StrAT, StrOK, <<"E", "R">>, PfxC}

\* Runs in which the caller expects a prefix that marker lines begin with
PrecedenceRuns ==
    [ input : {Wire(<<l, PfxC \o <<"y", "z">>>>) : l \in MarkerLines},
      out : {<<TRUE, MaxOutSize>>, <<FALSE, MaxOutSize>>},
      prefix : MarkerPrefixes, fill : {JUNK}, front : {JUNK},
      timeout : {U32(LineTimeoutMs)}, start : {U32(0)}, ticks : {0} ]

Runs == DataRuns \cup LongRuns \cup TimedRuns \cup PrecedenceRuns

\* a long step of the clock, a quarter of its range: four of them wrap it
LongMs == 2^30

\* a stream that has a byte for every poll of a readLn that fills the line
\* buffer, and never a terminator or marker
Endless == LongLine

\* Runs in which the clock is not stopped and goes round: with the timeouts
\* of the other runs, and with 2^32-1, the largest the caller can pass
LiveRuns ==
    [ input : {<<>>, Wire(<<StrOK>>)}, out : {<<FALSE, MaxOutSize>>},
      prefix : {<<>>}, fill : {JUNK}, front : {CR, JUNK},
      timeout : {U32(t) : t \in Timeouts} \cup {SizeMax}, start : {U32(0)},
      ticks : {1} ]
    \cup
    [ input : {Endless}, out : {<<TRUE, MaxOutSize>>},
      prefix : {<<>>}, fill : {JUNK}, front : {JUNK},
      timeout : {U32(2 * LineTimeoutMs)}, start : {U32(0)}, ticks : {1} ]

----------------------------------------------------------------------------
(* State *)

VARIABLES
    pc,          \* where readResponse is: "start", "loop", "poll", "done";
                 \* where a timedRead called on its own is: "start", "read", "returned"
    now,         \* millis()
    ticksLeft,   \* clock steps the environment may still take
    input,       \* all bytes the modem sends in this run
    stream,      \* bytes the modem has sent and the driver has not read
    inMem,       \* _inputBuffer, cell -1 is the byte in front of it
    index,       \* readBytesUntil: index
    startMillis, \* timedRead: _startMillis
    lnStart,     \* bytes read from the stream when the current readLn began
    outNull,     \* outBuffer == NULL
    outMaxSize,  \* outMaxSize
    prefix,      \* prefix
    timeout,     \* timeout, the argument of the call
    from,        \* readResponse: from
    outSize,     \* readResponse: outSize
    outMem,      \* the caller's memory at outBuffer; cells >= outMaxSize lie behind the buffer
    result,      \* the value readResponse returned
    initOut,     \* outMem when the call began
    wrote,       \* cells of outMem readResponse has written
    wdt,         \* calls of sodaq_wdt_reset in the current loop iteration
    iter,        \* what the last finished loop iteration did
    framed,      \* the non-empty lines readLn has framed so far
    payloads,    \* the stripped lines handed to the assembler so far
    ideal,       \* what the assembler would have written into an unbounded buffer
    polls,       \* calls of _modemUART->read() a timedRead called on its own has made
    ret          \* the value that timedRead returned

vars == <<pc, now, ticksLeft, input, stream, inMem, index, startMillis, lnStart,
          outNull, outMaxSize, prefix, timeout, from, outSize, outMem, result,
          initOut, wrote, wdt, iter, framed, payloads, ideal, polls, ret>>

\* timedRead returns -1; no value yet
NoByteRead == "-1"
NoReturn   == "pending"

NoIter == [kind |-> "none", line |-> <<>>, len |-> U32(0), endedBy |-> "none",
           urc |-> FALSE, claimed |-> FALSE, start |-> 0, end |-> 0,
           hasPrefix |-> FALSE, prev |-> "none"]

InMemCells  == -1 .. InputBufferSize - 1
OutMemCells == 0 .. MaxOutSize

InitRun(run) ==
        /\ pc = "start"
        /\ now = run.start
        /\ ticksLeft = run.ticks
        /\ input = run.input
        /\ stream = run.input
        /\ inMem = [i \in InMemCells |-> IF i = -1 THEN run.front ELSE JUNK]
        /\ index = 0
        /\ startMillis = U32(0)
        /\ lnStart = 0
        /\ outNull = run.out[1]
        /\ outMaxSize = run.out[2]
        /\ prefix = run.prefix
        /\ timeout = run.timeout
        /\ from = U32(0)
        /\ outSize = 0
        /\ outMem = [i \in OutMemCells |-> run.fill]
        /\ result = NoResponse
        /\ initOut = outMem
        /\ wrote = {}
        /\ wdt = 0
        /\ iter = NoIter
        /\ framed = <<>>
        /\ payloads = <<>>
        /\ ideal = <<>>
        /\ polls = 0
        /\ ret = NoReturn

Init == \E run \in Runs : InitRun(run)

----------------------------------------------------------------------------
(* Pure functions of the code *)

\* a deadline test that compares the clock with from + n
is_timedout_NoWrap(millis, since, nr_ms) ==
    Gt32(millis, Add32(since, nr_ms))

\* a deadline test against twice the time
is_timedout_Late(millis, since, nr_ms) ==
    Gt32(Sub32(millis, since), Add32(nr_ms, nr_ms))

\* a deadline test that is true from the deadline on
is_timedout_AtDeadline(millis, since, nr_ms) ==
    ~Gt32(nr_ms, Sub32(millis, since))

\* a deadline test that waits for the moment the time is up
is_timedout_Exact(millis, since, nr_ms) ==
    Sub32(millis, since) = Add32(nr_ms, U32(1))

\* is_timedout(from, nr_ms), with the value millis() returns made explicit
is_timedout(millis, since, nr_ms) == Gt32(Sub32(millis, since), nr_ms)

\* startsWith(pre, str): strncmp(pre, str, strlen(pre)) == 0, str being the
\* memory of the line buffer; the comparison stops at the first difference
RECURSIVE StrNCmpEq(_, _, _)
StrNCmpEq(pre, mem, i) ==
    IF i > Len(pre) THEN TRUE
    ELSE IF mem[i - 1] # pre[i] THEN FALSE
    ELSE StrNCmpEq(pre, mem, i + 1)

startsWith(pre, mem) == StrNCmpEq(pre, mem, 1)

\* readBytesUntil after its loop: the NUL it writes when index < length
ReadBytesUntilEnd(mem, idx, length) ==
    IF idx < length THEN [mem EXCEPT ![idx] = NUL] ELSE mem

\* a readLn that leaves the first terminator byte in the line
ReadLnTail_NoStrip(mem, rbu) ==
    [mem |-> [mem EXCEPT ![rbu] = NUL], len |-> U32(rbu)]

\* readLn after readBytesUntil returned len: strip the first terminator byte,
\* terminate the string.  len is a size_t, buffer[len - 1] with len = 0 is the
\* byte in front of the buffer
ReadLnTail(mem, rbu) ==
    LET len0  == U32(rbu)
        probe == ToInt(Sub32(len0, U32(TerminatorLen - 1)))
        strip == TerminatorLen > 1 /\ mem[probe] = Terminator[1]
        len   == IF strip THEN Sub32(len0, U32(TerminatorLen - 1)) ELSE len0
    IN  [mem |-> [mem EXCEPT ![ToInt(len)] = NUL], len |-> len]

\* the index of the buffer readLn compares with the first terminator byte
ReadLnProbe(rbu) == ToInt(Sub32(U32(rbu), U32(TerminatorLen - 1)))

\* the bytes of the line buffer up to count
LineOf(mem, count) == [i \in 1 .. count |-> mem[i - 1]]

usePrefix == prefix # <<>>
useOutBuffer == ~outNull /\ outMaxSize > 0

HasPrefix(mem) == usePrefix /\ useOutBuffer /\ startsWith(prefix, mem)

\* a classifier that lets the expected prefix win over the markers
Classify_PrefixFirst(mem, count) ==
    IF count <= 0 THEN "empty"
    ELSE IF HasPrefix(mem) THEN "other"
    ELSE IF startsWith(StrAT, mem) THEN "echo"
    ELSE IF startsWith(StrOK, mem) THEN "ok"
    ELSE IF \/ startsWith(StrERROR, mem)
            \/ startsWith(StrCMEERROR, mem)
            \/ startsWith(StrCMSERROR, mem) THEN "error"
    ELSE "other"

\* a loop body without the test of count
Classify_NoEmpty(mem, count) ==
    IF startsWith(StrAT, mem) THEN "echo"
    ELSE IF startsWith(StrOK, mem) THEN "ok"
    ELSE IF \/ startsWith(StrERROR, mem)
            \/ startsWith(StrCMEERROR, mem)
            \/ startsWith(StrCMSERROR, mem) THEN "error"
    ELSE "other"

\* a classifier without the echo rule
Classify_NoEcho(mem, count) ==
    IF count <= 0 THEN "empty"
    ELSE IF startsWith(StrOK, mem) THEN "ok"
    ELSE IF \/ startsWith(StrERROR, mem)
            \/ startsWith(StrCMEERROR, mem)
            \/ startsWith(StrCMSERROR, mem) THEN "error"
    ELSE "other"

\* a classifier that knows the plain ERROR marker only
Classify_PlainError(mem, count) ==
    IF count <= 0 THEN "empty"
    ELSE IF startsWith(StrAT, mem) THEN "echo"
    ELSE IF startsWith(StrOK, mem) THEN "ok"
    ELSE IF startsWith(StrERROR, mem) THEN "error"
    ELSE "other"

\* the first rules of readResponse's loop body, in the order of the code
Classify(mem, count) ==
    IF count <= 0 THEN "empty"
    ELSE IF startsWith(StrAT, mem) THEN "echo"
    ELSE IF startsWith(StrOK, mem) THEN "ok"
    ELSE IF \/ startsWith(StrERROR, mem)
            \/ startsWith(StrCMEERROR, mem)
            \/ startsWith(StrCMSERROR, mem) THEN "error"
    ELSE "other"

\* an assembler that takes every unclaimed line once the output buffer is enabled
Appends_Always(hasPrefix) == useOutBuffer

\* does the code append a line that is neither echo nor marker nor claimed URC
Appends(hasPrefix) == hasPrefix \/ (~usePrefix /\ useOutBuffer)

\* a hook result that is ignored: the claimed line falls through to the assembler
Discards_Ignored(hasPrefix, claimed) == FALSE

\* "if (!hasPrefix && checkURC(getInputBuffer())) continue;": claimed is what
\* checkURC returned
Discards(hasPrefix, claimed) == ~hasPrefix /\ claimed

\* the separator readResponse writes in front of a line
WriteSeparator(out, size, max) ==
    IF size > 0 /\ size < max - 1
    THEN [mem |-> [out EXCEPT ![size] = LF], size |-> size + 1, wrote |-> {size}]
    ELSE [mem |-> out, size |-> size, wrote |-> {}]

\* how many bytes of the line are copied
ClipCount(size, count, max) ==
    IF size + count > max - 1 THEN max - 1 - size ELSE count

\* the copy of the line and the NUL behind it
CopyLine(out, size, mem, count, skip, max) ==
    IF size < max - 1
    THEN LET n   == ClipCount(size, count - skip, max)
             end == size + n
         IN  [mem   |-> [i \in DOMAIN out |->
                            IF i = end THEN NUL
                            ELSE IF i >= size /\ i < end THEN mem[skip + i - size]
                            ELSE out[i]],
              size  |-> end,
              wrote |-> size .. end]
    ELSE [mem |-> out, size |-> size, wrote |-> {}]

\* an assembler that forgets to step over the prefix
Assemble_NoStrip(out, size, mem, count, hasPrefix, max) ==
    LET sep == WriteSeparator(out, size, max)
        cpy == CopyLine(sep.mem, sep.size, mem, count, 0, max)
    IN  [mem |-> cpy.mem, size |-> cpy.size, wrote |-> sep.wrote \cup cpy.wrote]

\* the assembler: the body of "if (hasPrefix || (!usePrefix && useOutBuffer))"
Assemble(out, size, mem, count, hasPrefix, max) ==
    LET sep  == WriteSeparator(out, size, max)
        skip == IF hasPrefix THEN Len(prefix) ELSE 0
        cpy  == CopyLine(sep.mem, sep.size, mem, count, skip, max)
    IN  [mem |-> cpy.mem, size |-> cpy.size, wrote |-> sep.wrote \cup cpy.wrote]

\* the same assembler writing into a buffer without bound
AssembleUnbounded(content, line, hasPrefix) ==
    LET skip == IF hasPrefix THEN Len(prefix) ELSE 0
    IN  (IF Len(content) > 0 THEN Append(content, LF) ELSE content)
        \o SubSeq(line, skip + 1, Len(line))

----------------------------------------------------------------------------
(* Actions *)

callVars == <<input, outNull, outMaxSize, prefix, timeout, initOut>>
readVars == <<polls, ret>>
outVars  == <<outSize, outMem, wrote, payloads, ideal>>

\* readResponse up to its loop: usePrefix, useOutBuffer, from, outSize and
\* the NUL written to outBuffer[0]
readResponse_enter ==
    /\ pc = "start"
    /\ from' = now
    /\ outSize' = 0
    /\ IF ~outNull
       THEN outMem' = [outMem EXCEPT ![0] = NUL] /\ wrote' = {0}
       ELSE UNCHANGED <<outMem, wrote>>
    /\ pc' = "loop"
    /\ UNCHANGED <<now, ticksLeft, stream, inMem, index, startMillis, lnStart,
                   result, wdt, iter, framed, payloads, ideal>>
    /\ UNCHANGED callVars
    /\ UNCHANGED readVars

\* the loop condition finds the overall timeout elapsed
readResponse_timeout ==
    /\ pc = "loop"
    /\ is_timedout(now, from, timeout)
    /\ result' = GSMResponseTimeout
    /\ pc' = "done"
    /\ UNCHANGED <<now, ticksLeft, stream, inMem, index, startMillis, lnStart,
                   from, wdt, iter, framed>>
    /\ UNCHANGED outVars
    /\ UNCHANGED callVars
    /\ UNCHANGED readVars

\* a loop body that resets the watchdog only for a line with data
WatchdogAfter_OnData(n, count) == IF count > 0 THEN n + 1 ELSE n

\* the calls of sodaq_wdt_reset after the one that follows readLn: the call
\* stands in front of the test of count
WatchdogAfter(n, count) == n + 1

\* what follows the loop of readBytesUntil: its NUL, the tail of readLn and
\* the rest of the loop body of readResponse.  mem and idx are the line buffer
\* and index when the loop ended, endedBy says why it ended; ln is what
\* readLn leaves (buffer and returned length), kind the rule that matched
LineDone(mem, idx, endedBy) ==
    \E ln \in {ReadLnTail(ReadBytesUntilEnd(mem, idx, InputBufferSize - 1), idx)} :
    \E kind \in {Classify(ln.mem, ToInt(ln.len))} :
    \E hasP \in {kind = "other" /\ HasPrefix(ln.mem)} :
    LET count == ToInt(ln.len)
        line  == IF count > 0 THEN LineOf(ln.mem, count) ELSE <<>>
        asked == kind = "other" /\ ~hasP
    IN  /\ inMem' = ln.mem
        /\ wdt' = WatchdogAfter(IF pc = "poll" THEN wdt ELSE 0, count)
        /\ framed' = IF count > 0 THEN Append(framed, line) ELSE framed
        /\ \E claimed \in (IF asked THEN BOOLEAN ELSE {FALSE}) :
             LET skipped == kind = "other" /\ Discards(hasP, claimed)
                 appends == kind = "other" /\ ~skipped /\ Appends(hasP)
                 asm     == Assemble(outMem, outSize, ln.mem, count, hasP, outMaxSize)
                 what    == IF kind # "other" THEN kind
                            ELSE IF skipped THEN "urc"
                            ELSE IF appends THEN "payload"
                            ELSE "discard"
             IN  /\ iter' = [kind |-> what, line |-> line, len |-> ln.len,
                             endedBy |-> endedBy, urc |-> asked,
                             claimed |-> claimed, start |-> lnStart,
                             end |-> Len(input) - Len(stream'),
                             hasPrefix |-> hasP, prev |-> iter.kind]
                 /\ IF appends
                    THEN /\ outMem' = asm.mem
                         /\ outSize' = asm.size
                         /\ wrote' = wrote \cup asm.wrote
                         /\ payloads' = Append(payloads,
                                SubSeq(line, (IF hasP THEN Len(prefix) ELSE 0) + 1, Len(line)))
                         /\ ideal' = AssembleUnbounded(ideal, line, hasP)
                    ELSE UNCHANGED outVars
        /\ result' = CASE kind = "ok" -> GSMResponseOK
                       [] kind = "error" -> GSMResponseError
                       [] OTHER -> result
        /\ pc' = IF kind \in {"ok", "error"} THEN "done" ELSE "loop"

\* the loop condition holds: readLn(250) is called, readBytesUntil begins and
\* makes its first call of timedRead
readLn_begin ==
    /\ pc = "loop"
    /\ ~is_timedout(now, from, timeout)
    /\ lnStart' = Len(input) - Len(stream)
    /\ UNCHANGED <<now, ticksLeft, stream, from>>
    /\ UNCHANGED callVars
    /\ UNCHANGED readVars
    /\ IF InputBufferSize - 1 < 1
       THEN /\ index' = index
            /\ startMillis' = startMillis
            /\ LineDone(inMem, 0, "length")
       ELSE /\ index' = 0
            /\ startMillis' = now
            /\ pc' = "poll"
            /\ wdt' = 0
            /\ UNCHANGED <<inMem, result, iter, framed>>
            /\ UNCHANGED outVars

\* timedRead: _modemUART->read() returns a byte, d ms after the last step.
\* readBytesUntil stores it and calls timedRead again, or ends its loop
ByteRead(d) ==
    /\ pc = "poll"
    /\ stream # <<>>
    /\ now' = Add32(now, d)
    /\ stream' = Tail(stream)
    /\ UNCHANGED <<lnStart, from>>
    /\ UNCHANGED callVars
    /\ UNCHANGED readVars
    /\ LET c == Head(stream)
       IN  IF c = Terminator[TerminatorLen]
           THEN /\ UNCHANGED <<index, startMillis>>
                /\ LineDone(inMem, index, "terminator")
           ELSE LET mem == [inMem EXCEPT ![index] = c]
                IN  IF index + 1 < InputBufferSize - 1
                    THEN /\ inMem' = mem
                         /\ index' = index + 1
                         /\ startMillis' = now'
                         /\ pc' = "poll"
                         /\ UNCHANGED <<result, wdt, iter, framed>>
                         /\ UNCHANGED outVars
                    ELSE /\ index' = index + 1
                         /\ UNCHANGED startMillis
                         /\ LineDone(mem, index + 1, "length")

\* timedRead: _modemUART->read() returns -1 and d ms have passed; timedRead
\* polls again, or returns -1 and readBytesUntil ends its loop
NoByte(d) ==
    /\ pc = "poll"
    /\ now' = Add32(now, d)
    /\ UNCHANGED <<stream, lnStart, from, index, startMillis>>
    /\ UNCHANGED callVars
    /\ UNCHANGED readVars
    /\ IF is_timedout(now', startMillis, U32(LineTimeoutMs))
       THEN LineDone(inMem, index, "timeout")
       ELSE /\ pc' = "poll"
            /\ UNCHANGED <<inMem, result, wdt, iter, framed>>
            /\ UNCHANGED outVars

\* a byte is read d ms after the last step, d being 0 or one step of the clock
timedRead_byte(d) ==
    /\ d > 0 => ticksLeft > 0
    /\ ticksLeft' = IF d > 0 THEN ticksLeft - 1 ELSE ticksLeft
    /\ ByteRead(U32(d))

\* no byte is there and the clock makes one step
timedRead_none ==
    /\ ticksLeft > 0
    /\ ticksLeft' = ticksLeft - 1
    /\ NoByte(U32(TickMs))

\* a byte is read after a long step of the clock
timedRead_late ==
    /\ UNCHANGED ticksLeft
    /\ ByteRead(U32(LongMs))

\* no byte is there and the clock makes a long step
timedRead_idle ==
    /\ UNCHANGED ticksLeft
    /\ NoByte(U32(LongMs))

Next ==
    \/ readResponse_enter
    \/ readResponse_timeout
    \/ readLn_begin
    \/ \E d \in {0, TickMs} : timedRead_byte(d)
    \/ timedRead_none

Spec == Init /\ [][Next]_vars

\* what a timedRead called on its own leaves alone
restVars == <<inMem, index, lnStart, from, result, wdt, iter, framed>>

\* timedRead is called with the argument timeout: _startMillis = millis()
timedRead_enter ==
    /\ pc = "start"
    /\ startMillis' = now
    /\ pc' = "read"
    /\ UNCHANGED <<now, ticksLeft, stream>>
    /\ UNCHANGED <<restVars, outVars, callVars, readVars>>

\* _modemUART->read() returns a byte: timedRead returns it
timedRead_hit ==
    /\ pc = "read"
    /\ stream # <<>>
    /\ polls' = polls + 1
    /\ ret' = Head(stream)
    /\ stream' = Tail(stream)
    /\ pc' = "returned"
    /\ UNCHANGED <<now, ticksLeft, startMillis>>
    /\ UNCHANGED <<restVars, outVars, callVars>>

\* _modemUART->read() returns -1; d ms later the loop condition is tested:
\* timedRead polls again or returns -1
timedRead_miss(d) ==
    /\ pc = "read"
    /\ IF d > 0 THEN ticksLeft > 0 ELSE polls < MaxPolls
    /\ ticksLeft' = IF d > 0 THEN ticksLeft - 1 ELSE ticksLeft
    /\ now' = Add32(now, U32(d))
    /\ polls' = polls + 1
    /\ IF is_timedout(now', startMillis, timeout)
       THEN ret' = NoByteRead /\ pc' = "returned"
       ELSE ret' = ret /\ pc' = "read"
    /\ UNCHANGED <<stream, startMillis>>
    /\ UNCHANGED <<restVars, outVars, callVars>>

\* timedRead called on its own, with every timeout and at every start time
ReadRuns ==
    [ input : {<<>>, <<"x">>}, out : {<<TRUE, MaxOutSize>>},
      prefix : {<<>>}, fill : {JUNK}, front : {JUNK},
      timeout : {U32(t) : t \in Timeouts}, start : StartTimes,
      ticks : {MaxTicks} ]

ReadInit == \E run \in ReadRuns : InitRun(run)

ReadNext ==
    \/ timedRead_enter
    \/ timedRead_hit
    \/ \E d \in {0, TickMs} : timedRead_miss(d)

ReadSpec == ReadInit /\ [][ReadNext]_vars

\* The driver with a clock that is not stopped.  A step is taken as long as
\* one is possible: the processor runs and millis() advances
LiveInit == \E run \in LiveRuns : InitRun(run)

LiveNext ==
    \/ Next
    \/ timedRead_late
    \/ timedRead_idle

LiveSpec == LiveInit /\ [][LiveNext]_vars /\ WF_vars(LiveNext)

\* The caller calls readResponse or timedRead
CallInit == Init \/ ReadInit

CallNext ==
    \/ Next
    \/ ReadNext

CallSpec == CallInit /\ [][CallNext]_vars

----------------------------------------------------------------------------
(* Reading the caller's buffer *)

\* cells of the first cap cells of mem that hold NUL
NulCells(mem, cap) == {i \in 0 .. cap - 1 : mem[i] = NUL}

\* the buffer holds a NUL within its capacity
Terminated(mem, cap) == NulCells(mem, cap) # {}

Min(S) == CHOOSE m \in S : \A n \in S : m <= n

\* the string a reader of the buffer finds: the bytes in front of the first NUL
CString(mem, cap) ==
    LET n == Min(NulCells(mem, cap)) IN [i \in 1 .. n |-> mem[i - 1]]

\* the bytes in cells a .. b-1
Cells(mem, a, b) == [i \in 1 .. b - a |-> mem[a + i - 1]]

\* the first n bytes of a sequence, all of it when it is shorter
Clip(q, n) == SubSeq(q, 1, IF Len(q) < n THEN Len(q) ELSE n)

running == pc \in {"loop", "poll", "done"}

----------------------------------------------------------------------------
(* C1: for a non-null output buffer of capacity N >= 1 the buffer is a
   NUL-terminated string within its bound after every append and at return:
   outSize <= N-1 and there is a NUL at index outSize. *)
C1_Terminated ==
    (running /\ ~outNull /\ outMaxSize >= 1)
        => (outSize <= outMaxSize - 1 /\ outMem[outSize] = NUL)

(* C2: readResponse never writes the output buffer at an index >= outMaxSize,
   for every capacity including 0 and 1; with outMaxSize = 0 no byte of the
   buffer is written at all. *)
C2_WritesInBounds ==
    \A i \in wrote : i < outMaxSize

(* C3: for every capacity N >= 1 the output buffer at return holds exactly
   the first min(L, N-1) bytes of what an unbounded buffer would have
   received, L being its length. *)
C3_SilentTruncation ==
    (pc = "done" /\ ~outNull /\ outMaxSize >= 1)
        => /\ Terminated(outMem, outMaxSize)
           /\ CString(outMem, outMaxSize) = Clip(ideal, outMaxSize - 1)

\* a loop iteration of readResponse ends: readLn has returned and the loop
\* body has run
LineClassified == pc = "poll" /\ pc' \in {"loop", "done"}

\* the bytes of a line behind its first n
Drop(line, n) == SubSeq(line, n + 1, Len(line))

\* does a line begin with pre
Begins(pre, line) == Len(line) >= Len(pre) /\ SubSeq(line, 1, Len(pre)) = pre

(* C4: a line that matches the expected prefix is appended with exactly the
   first strlen(prefix) bytes removed and the rest kept (the buffer having
   room for it); prefix "+CSQ: " with lines "+CSQ: 15,99" and "OK" gives
   output "15,99" and outcome Success. *)
C4_Room ==
    outSize + (IF outSize > 0 THEN 1 ELSE 0) + Len(iter'.line) - Len(prefix)
        <= outMaxSize - 1

C4_Step ==
    (LineClassified /\ iter'.kind = "payload" /\ iter'.hasPrefix /\ C4_Room)
        => LET at == outSize + (IF outSize > 0 THEN 1 ELSE 0)
           IN  /\ outSize' = at + Len(iter'.line) - Len(prefix)
               /\ Cells(outMem', at, outSize') = Drop(iter'.line, Len(prefix))
               /\ Cells(outMem', 0, outSize) = Cells(outMem, 0, outSize)

C4_Example ==
    (/\ pc = "done"
     /\ prefix = PfxCSQ
     /\ framed = <<StrAT, LineCSQ, StrOK>>
     /\ useOutBuffer)
        => /\ result = GSMResponseOK
           /\ CString(outMem, outMaxSize) = <<"1", "5", ",", "9", "9">>

\* C4: every step strips the prefix as C4_Step says, and the example holds
C4_PrefixStripped == [][C4_Step]_vars /\ []C4_Example

C4_Witness ==
    /\ pc = "done"
    /\ prefix = PfxCSQ
    /\ framed = <<StrAT, LineCSQ, StrOK>>
    /\ payloads = <<Drop(LineCSQ, Len(PfxCSQ))>>
    /\ result = GSMResponseOK

\* lines joined by single newline separators
RECURSIVE Join(_)
Join(ls) ==
    IF ls = <<>> THEN <<>>
    ELSE IF Len(ls) = 1 THEN ls[1]
    ELSE ls[1] \o <<LF>> \o Join(Tail(ls))

(* C5: when k >= 1 payload lines were appended and the buffer is large
   enough, it holds their stripped contents in arrival order joined by k-1
   newline separators, also when a stripped content is empty. *)
C5_Separators ==
    (/\ running
     /\ useOutBuffer
     /\ payloads # <<>>
     /\ Len(Join(payloads)) <= outMaxSize - 1)
        => /\ Terminated(outMem, outMaxSize)
           /\ CString(outMem, outMaxSize) = Join(payloads)

\* the markers of readResponse, on a line
IsEcho(line)  == Begins(StrAT, line)
IsOK(line)    == Begins(StrOK, line)
IsError(line) == \/ Begins(StrERROR, line)
                 \/ Begins(StrCMEERROR, line)
                 \/ Begins(StrCMSERROR, line)

(* C6: every non-empty line that is no echo, no Success or Error marker and
   no match of the expected prefix is passed to checkURC; a line the hook
   claims changes neither the output buffer nor the outcome, and reading
   continues. *)
C6_Step ==
    LineClassified =>
        /\ (/\ iter'.line # <<>>
            /\ ~IsEcho(iter'.line)
            /\ ~IsOK(iter'.line)
            /\ ~IsError(iter'.line)
            /\ ~(usePrefix /\ Begins(prefix, iter'.line)))
               => iter'.urc
        /\ iter'.claimed
               => /\ iter'.urc
                  /\ outMem' = outMem
                  /\ outSize' = outSize
                  /\ result' = result
                  /\ pc' = "loop"

\* C6: every step of the loop offers and skips lines as C6_Step says
C6_ClaimedURC == [][C6_Step]_vars

C6_Witness ==
    /\ iter.claimed
    /\ iter.line = <<"x">>
    /\ outSize > 0
    /\ pc = "loop"

(* C7: when readResponse returns Timeout the output buffer still holds what
   was assembled from the payload lines read so far, intact and well-formed. *)
C7_TimeoutKeepsBuffer ==
    (pc = "done" /\ result = GSMResponseTimeout /\ ~outNull /\ outMaxSize >= 1)
        => /\ Terminated(outMem, outMaxSize)
           /\ CString(outMem, outMaxSize) = Clip(ideal, outMaxSize - 1)

\* the input is echoed lines and then the line OK, and each was framed whole
EchoesThenOK ==
    /\ framed # <<>>
    /\ input = Wire(framed)
    /\ framed[Len(framed)] = StrOK
    /\ \A i \in 1 .. Len(framed) - 1 : IsEcho(framed[i])

(* C8 as stated: for zero or more echoed lines followed by the line OK,
   readResponse returns Success and leaves the output buffer as it was when
   the call began. *)
C8_BufferUntouched ==
    (pc = "done" /\ EchoesThenOK)
        => /\ result = GSMResponseOK
           /\ outMem = initOut

(* C8 amended: for zero or more echoed lines followed by the line OK,
   readResponse returns Success and the only byte of the output buffer it
   has changed is the first, set to NUL at the start of the call when
   outBuffer is not null (also when outMaxSize is 0). *)
C8_BufferCleared ==
    (pc = "done" /\ EchoesThenOK)
        => /\ result = GSMResponseOK
           /\ outMem = IF outNull THEN initOut ELSE [initOut EXCEPT ![0] = NUL]

C8_Witness ==
    /\ pc = "done"
    /\ EchoesThenOK
    /\ Len(framed) >= 2
    /\ ~outNull
    /\ initOut[0] = JUNK
    /\ outMem[0] = NUL

\* bytes read from the stream so far
consumed == Len(input) - Len(stream)

(* C9: readResponse returns Error at the first framed line that begins with
   "ERROR", "+CME ERROR:" or "+CMS ERROR:" when no line beginning with "OK"
   came before, and it ends there: nothing behind that line's terminator is
   read from the stream, and the error line leaves the output buffer as the
   payload before it made it. *)
C9_Ends ==
    \A i \in 1 .. Len(framed) :
        (IsError(framed[i]) /\ \A j \in 1 .. i - 1 : ~IsOK(framed[j]))
            => /\ i = Len(framed)
               /\ pc = "done"
               /\ result = GSMResponseError
               /\ iter.line = framed[i]
               /\ consumed = iter.end
               /\ consumed <= iter.start + Len(iter.line) + TerminatorLen

C9_Step ==
    (LineClassified /\ IsError(iter'.line) /\ \A j \in 1 .. Len(framed) : ~IsOK(framed[j]))
        => /\ outMem' = outMem
           /\ outSize' = outSize

\* C9: the first error marker ends the call (C9_Ends) and leaves the buffer alone (C9_Step)
C9_ErrorEnds == []C9_Ends /\ [][C9_Step]_vars

C9_Witness ==
    /\ pc = "done"
    /\ result = GSMResponseError
    /\ Begins(StrCMSERROR, iter.line)
    /\ iter.endedBy = "terminator"
    /\ stream = <<>>

C9_WitnessPayload ==
    /\ pc = "done"
    /\ result = GSMResponseError
    /\ iter.line = StrERROR
    /\ outSize > 0

\* the positions of the input behind position p that hold LF
LFsBehind(p) == {q \in p + 1 .. Len(input) : input[q] = LF}

\* the input at position p is a line with content and terminator that fits a
\* buffer of the given size
FitsAt(p, size) ==
    /\ LFsBehind(p) # {}
    /\ LET q == Min(LFsBehind(p))
       IN  /\ q - 1 >= p + 1
           /\ input[q - 1] = CR
           /\ q - 2 - p <= size - 2

\* the content of that line
ContentAt(p) == SubSeq(input, p + 1, Min(LFsBehind(p)) - 2)

\* readLn has just returned
readLnReturned == pc \in {"loop", "done"} /\ iter.kind # "none"

(* C10: for an input line terminated with CR LF whose content fits the
   buffer (content length <= size-2, no LF inside) and that no byte timeout
   interrupts, readLn returns the content length, both terminator bytes
   excluded, and the buffer holds the content followed by NUL at that length. *)
C10_LineFramed ==
    (readLnReturned /\ iter.endedBy # "timeout" /\ FitsAt(iter.start, InputBufferSize))
        => LET content == ContentAt(iter.start)
           IN  /\ iter.len = U32(Len(content))
               /\ Cells(inMem, 0, Len(content)) = content
               /\ inMem[Len(content)] = NUL

C10_Witness ==
    /\ readLnReturned
    /\ FitsAt(iter.start, InputBufferSize)
    /\ ContentAt(iter.start) = EdgeLine
    /\ iter.len = U32(InputBufferSize - 2)
    /\ stream # <<>>
    /\ Head(stream) = LF

\* the cells of the line buffer
BufferCells == 0 .. InputBufferSize - 1

(* C11: after every readLn call, ended by the terminator, a byte timeout or
   the capacity, the returned length is <= size-1 and buffer[length] is NUL;
   a line longer than size-1 bytes is cut after size-1 bytes, which are in
   the buffer, and the bytes behind them are still in the stream. *)
C11_LineBuffer ==
    readLnReturned
        => /\ ~Gt32(iter.len, U32(InputBufferSize - 1))
           /\ inMem[ToInt(iter.len)] = NUL
           /\ iter.endedBy = "length"
                => /\ iter.end = iter.start + InputBufferSize - 1
                   /\ Cells(inMem, 0, ToInt(iter.len))
                        = SubSeq(input, iter.start + 1, iter.start + ToInt(iter.len))
                   /\ stream = SubSeq(input, iter.end + 1, Len(input))

(* C12: when readLn collects zero bytes (the first byte times out or is a
   bare LF) nothing is stripped: it returns 0, buffer[0] is NUL, and the
   index it probes for the CR lies within 0 .. size-1, whatever the byte in
   front of the buffer is. *)
C12_ZeroBytes ==
    (readLnReturned /\ index = 0)
        => /\ iter.len = U32(0)
           /\ inMem[0] = NUL
           /\ ReadLnProbe(index) \in BufferCells

\* a line begins with one of the markers
IsMarker(line) == IsEcho(line) \/ IsOK(line) \/ IsError(line)

\* the rule of the expected prefix applies to a line
IsPrefixed(line) == usePrefix /\ useOutBuffer /\ Begins(prefix, line)

\* what the first matching rule makes of a line, claimed being the answer of
\* URC dispatch
FirstMatch(line, claimed) ==
    IF IsEcho(line) THEN "echo"
    ELSE IF IsOK(line) THEN "ok"
    ELSE IF IsError(line) THEN "error"
    ELSE IF IsPrefixed(line) THEN "payload"
    ELSE IF claimed THEN "urc"
    ELSE IF ~usePrefix /\ useOutBuffer THEN "payload"
    ELSE "discard"

(* C13: each non-empty framed line is classified by the first rule that
   matches, in the order echo, Success, Error markers, expected prefix, URC
   dispatch, whole-line payload; a line beginning with a marker is never
   offered to URC dispatch and never appended, also when it begins with the
   expected prefix, and a prefix-matched line is never offered to URC
   dispatch. *)
C13_Step ==
    (LineClassified /\ iter'.line # <<>>)
        => LET line == iter'.line
           IN  /\ iter'.kind = FirstMatch(line, iter'.claimed)
               /\ iter'.urc = (~IsMarker(line) /\ ~IsPrefixed(line))
               /\ iter'.hasPrefix = (~IsMarker(line) /\ IsPrefixed(line))
               /\ iter'.claimed => iter'.urc
               /\ IsMarker(line)
                    => /\ outMem' = outMem
                       /\ outSize' = outSize
                       /\ payloads' = payloads
               /\ (iter'.kind = "payload") = (payloads' # payloads)

\* C13: every step of the loop classifies as C13_Step says
C13_FirstMatch == [][C13_Step]_vars

C13_Witness ==
    /\ pc = "done"
    /\ result = GSMResponseOK
    /\ prefix = StrOK
    /\ iter.line = StrOK \o <<"A", "Y">>
    /\ useOutBuffer
    /\ Begins(prefix, iter.line)
    /\ ~iter.urc
    /\ payloads = <<>>

\* cells of the caller's memory a step has changed
Changed == {i \in OutMemCells : outMem'[i] # outMem[i]}

\* the step has put the first n bytes of bytes in front of outSize', behind
\* at most a separator, and a NUL at outSize'; it changed no other cell
Added(bytes, n) ==
    /\ n <= outSize'
    /\ Cells(outMem', outSize' - n, outSize') = SubSeq(bytes, 1, n)
    /\ \A i \in Changed :
          \/ i \in outSize' - n .. outSize' - 1
          \/ i = outSize' /\ outMem'[i] = NUL
          \/ i = outSize' - n - 1 /\ i = outSize /\ i > 0 /\ outMem'[i] = LF

\* room for content behind outSize and the separator the code writes there
RoomBehind ==
    LET at == outSize + (IF outSize > 0 /\ outSize < outMaxSize - 1 THEN 1 ELSE 0)
    IN  IF outMaxSize - 1 > at THEN outMaxSize - 1 - at ELSE 0

(* C14: with a non-empty prefix requested, every byte put into the output
   buffer comes from a line that began with the prefix, and a line that does
   not match and that URC dispatch does not claim is discarded, buffer and
   outcome unchanged; with no prefix requested and the output buffer enabled,
   every line that is no echo, no terminal marker and not claimed is appended
   whole (as much of it as there is room for); with the output buffer
   disabled no line is ever appended. *)
C14_Step ==
    (LineClassified /\ iter'.line # <<>>)
        => LET line == iter'.line
               rest == Drop(line, Len(prefix))
           IN  /\ (usePrefix /\ (Changed # {} \/ outSize' # outSize))
                    => /\ Begins(prefix, line)
                       /\ \E n \in 0 .. Len(rest) : Added(rest, n)
               /\ (usePrefix /\ ~IsMarker(line) /\ ~Begins(prefix, line) /\ ~iter'.claimed)
                    => /\ outMem' = outMem
                       /\ outSize' = outSize
                       /\ result' = result
                       /\ pc' = "loop"
               /\ (~usePrefix /\ useOutBuffer /\ ~IsMarker(line) /\ ~iter'.claimed)
                    => /\ payloads' = Append(payloads, line)
                       /\ Added(line, IF Len(line) < RoomBehind THEN Len(line) ELSE RoomBehind)
                       /\ result' = result
               /\ ~useOutBuffer
                    => /\ outMem' = outMem
                       /\ outSize' = outSize
                       /\ payloads' = payloads

\* C14: every step of the loop filters as C14_Step says
C14_Filtered == [][C14_Step]_vars

C14_Witness ==
    /\ pc = "loop"
    /\ prefix = PfxC
    /\ payloads = <<<<"y", "z">>>>
    /\ iter.line = <<"x">>
    /\ iter.kind = "discard"
    /\ iter.urc
    /\ ~iter.claimed
    /\ CString(outMem, outMaxSize) = <<"y", "z">>

(* C15 as stated: the watchdog reset hook is invoked exactly once in every
   loop iteration in which the line framer produced a non-empty line, and not
   at all in an iteration that produced zero bytes. *)
C15_OnlyWithData ==
    [][IF LineClassified
       THEN wdt' = (IF iter'.line # <<>> THEN 1 ELSE 0)
       ELSE wdt' = wdt \/ (pc = "loop" /\ pc' = "poll" /\ wdt' = 0)]_vars

(* C15 amended: the watchdog reset hook is invoked exactly once in every
   loop iteration, whether the line framer produced a line or zero bytes,
   and nowhere else. *)
C15_EveryIteration ==
    [][IF LineClassified
       THEN wdt' = 1
       ELSE wdt' = wdt \/ (pc = "loop" /\ pc' = "poll" /\ wdt' = 0)]_vars

C15_Witness ==
    /\ pc = "loop"
    /\ wdt = 1
    /\ framed = <<>>
    /\ iter.line = <<>>
    /\ iter.endedBy = "timeout"
    /\ index = 0
    /\ stream # <<>>

(* C16: a loop iteration in which readLn yields zero bytes (a byte timeout
   with nothing received, a blank line) does not end readResponse, does not
   call URC dispatch and does not change the output buffer; the line of the
   iteration that follows it is classified and assembled as any other. *)
C16_Step ==
    LineClassified
        => /\ iter'.line = <<>>
                => /\ pc' = "loop"
                   /\ result' = result
                   /\ ~iter'.urc
                   /\ outMem' = outMem
                   /\ outSize' = outSize
                   /\ payloads' = payloads
           /\ (iter.kind = "empty" /\ iter'.line # <<>>)
                => LET line == iter'.line
                       rest == IF iter'.hasPrefix THEN Drop(line, Len(prefix)) ELSE line
                   IN  /\ iter'.kind = FirstMatch(line, iter'.claimed)
                       /\ iter'.kind = "ok"
                            => result' = GSMResponseOK /\ pc' = "done"
                       /\ iter'.kind = "error"
                            => result' = GSMResponseError /\ pc' = "done"
                       /\ iter'.kind = "payload"
                            => /\ payloads' = Append(payloads, rest)
                               /\ Added(rest, IF Len(rest) < RoomBehind
                                               THEN Len(rest) ELSE RoomBehind)

\* C16: every step of the loop treats zero bytes as C16_Step says
C16_NothingYet == [][C16_Step]_vars

\* a byte timeout with nothing received, then the line OK within the overall timeout
C16_Witness ==
    /\ pc = "done"
    /\ result = GSMResponseOK
    /\ input = Wire(<<StrOK>>)
    /\ framed = <<StrOK>>
    /\ iter.prev = "empty"
    /\ iter.start = 0
    /\ Gt32(Sub32(now, from), U32(LineTimeoutMs))

\* a blank line, then a payload line
C16_WitnessPayload ==
    /\ pc = "loop"
    /\ input = Wire(<<<<>>, PfxC \o <<"y", "z">>>>)
    /\ iter.prev = "empty"
    /\ iter.kind = "payload"
    /\ payloads = <<<<"y", "z">>>>
    /\ CString(outMem, outMaxSize) = <<"y", "z">>

\* the calls return one outcome, once
OneOutcome ==
    /\ [](pc = "done" <=> result # NoResponse)
    /\ [][result # NoResponse => result' = result]_vars

\* every readLn call returns, and every timedRead call: the driver does not
\* stay in the polling loop for ever, nor in the polling for the byte of
\* one index
LineReadsEnd ==
    /\ []<>(pc # "poll")
    /\ \A i \in 0 .. InputBufferSize - 2 : []<>~(pc = "poll" /\ index = i)

(* C17 as stated: every readResponse call ends with exactly one outcome,
   whatever the stream does, the clock advancing; every readLn and timedRead
   call ends. *)
C17_AlwaysEnds ==
    /\ <>(pc = "done")
    /\ OneOutcome
    /\ LineReadsEnd

(* C17 amended: every readResponse call with a timeout below 2^32-1 ends
   with exactly one outcome, whatever the stream does, the clock advancing;
   every readLn and timedRead call it makes ends. *)
C17_EndsBelowMax ==
    /\ <>(pc = "done" \/ timeout = SizeMax)
    /\ OneOutcome
    /\ LineReadsEnd

\* the modem had a byte for every poll and sent no terminator: the line
\* buffer filled up, one long step of the clock passed, the call timed out
\* with bytes left in the stream
C17_Witness ==
    /\ pc = "done"
    /\ result = GSMResponseTimeout
    /\ input = Endless
    /\ framed = <<FullLine>>
    /\ iter.endedBy = "length"
    /\ Sub32(now, from) = U32(LongMs)
    /\ stream # <<>>

\* timedRead called on its own has returned
returned == pc = "returned"

\* what timedRead has returned: a byte only from a poll, and then the first
\* byte of the stream and no other is gone; -1 only after polls that found
\* nothing, more than timeout ms after the call began
C18_Returned ==
    returned
        => /\ polls >= 1
           /\ ret # NoByteRead
                => /\ input # <<>>
                   /\ ret = Head(input)
                   /\ stream = Tail(input)
           /\ ret = NoByteRead
                => /\ stream = input
                   /\ Gt32(Sub32(now, startMillis), timeout)

\* a poll that finds a byte is the last poll of the call
C18_Step ==
    (pc = "read" /\ stream' # stream)
        => /\ pc' = "returned"
           /\ ret' = Head(stream)
           /\ polls' = polls + 1

(* C18: timedRead(timeout) polls the stream at least once, also when timeout
   is 0; it returns the byte of the first poll that finds one and polls no
   further; it returns -1 only when every poll found no byte and more than
   timeout ms have passed since the call began, never while the elapsed time
   is <= timeout. *)
C18_TimedRead == []C18_Returned /\ [][C18_Step]_vars

\* timeout 0: the first poll finds nothing at elapsed time 0 and the call
\* goes on; the second finds nothing after a step of the clock, -1 is returned
C18_Witness ==
    /\ returned
    /\ timeout = U32(0)
    /\ polls = 2
    /\ ret = NoByteRead
    /\ Sub32(now, startMillis) = U32(TickMs)
    /\ stream # <<>>

\* a sequence without its last element
Front(q) == SubSeq(q, 1, Len(q) - 1)

\* the line readLn makes of the bytes one call has taken from the stream
FragmentOf(bytes, endedBy) ==
    LET body == IF endedBy = "terminator" THEN Front(bytes) ELSE bytes
    IN  IF body # <<>> /\ body[Len(body)] = Terminator[1] THEN Front(body) ELSE body

\* the last readLn was ended by a byte gap or by the capacity, with a line
Split == iter.endedBy \in {"timeout", "length"} /\ iter.line # <<>>

(* C19: a byte gap longer than the 250 ms of the per-line timeout, or the
   line buffer reaching its capacity, ends the line; each fragment is framed
   and classified as a line of its own, so that the fragments "O" and "K" of
   a split "OK" line do not yield Success, and the fragment behind a split
   that begins with "OK" or "ERROR" ends the call with Success or Error. *)
C19_Step ==
    /\ (pc = "poll" /\ stream' = stream /\ now' # now)
         => (Gt32(Sub32(now', startMillis), U32(LineTimeoutMs))
                = (LineClassified /\ iter'.endedBy = "timeout"))
    /\ (pc = "poll" /\ stream' # stream /\ Head(stream) # LF)
         => ((index = InputBufferSize - 2)
                = (LineClassified /\ iter'.endedBy = "length"))
    /\ LineClassified
         => /\ iter'.start = (IF iter.kind = "none" THEN 0 ELSE iter.end)
            /\ iter'.line = FragmentOf(SubSeq(input, iter'.start + 1, iter'.end),
                                       iter'.endedBy)
            /\ iter'.line # <<>>
                 => iter'.kind = FirstMatch(iter'.line, iter'.claimed)
            /\ (Split /\ IsOK(iter'.line))
                 => pc' = "done" /\ result' = GSMResponseOK
            /\ (Split /\ IsError(iter'.line))
                 => pc' = "done" /\ result' = GSMResponseError

C19_SplitOK ==
    (input = Wire(<<StrOK>>) /\ framed # <<>> /\ framed[1] = <<"O">>)
        => result # GSMResponseOK

\* C19: every step splits and classifies as C19_Step says, and a split OK is no Success
C19_Fragments == [][C19_Step]_vars /\ []C19_SplitOK

\* the line "xOK" was split behind "x" by a byte gap: the call ended with Success
C19_Witness ==
    /\ pc = "done"
    /\ result = GSMResponseOK
    /\ input = Wire(<<<<"x">> \o StrOK>>)
    /\ framed = <<<<"x">>, StrOK>>

\* the line "OK" was split behind "O" by a byte gap
C19_WitnessSplitOK ==
    /\ input = Wire(<<StrOK>>)
    /\ framed = <<<<"O">>, <<"K">>>>
    /\ iter.endedBy = "terminator"
    /\ result = NoResponse

\* a line of 13 bytes and "ERROR" was split by the capacity of the line buffer
C19_WitnessCapacity ==
    /\ pc = "done"
    /\ result = GSMResponseError
    /\ framed = <<FullLine, StrERROR>>

\* the time in ms a call went on for when the clock, read as t at the call,
\* reads n and left clock steps remain: the clock stands still in a run
\* without clock steps, and a run with clock steps begins with MaxTicks of them
ElapsedMs(n, t, left) == IF n = t THEN 0 ELSE (MaxTicks - left) * TickMs

\* more than the timeout has elapsed since the clock read t
Overdue(n, t, left) == Gt32(U32(ElapsedMs(n, t, left)), timeout)

\* the clock has wrapped since it read t
Wrapped(t) == Gt32(t, now)

(* C20: is_timedout is right across the wrap of the 32-bit millisecond clock:
   it is true exactly when more than n ms have elapsed since from, so that a
   readResponse or a timedRead called shortly before the wrap (as one called
   at clock 0) ends by timeout exactly when more than its timeout elapsed. *)
C20_Deadline ==
    /\ pc \in {"loop", "poll", "done"}
         => is_timedout(now, from, timeout) = Overdue(now, from, ticksLeft)
    /\ pc \in {"read", "returned"}
         => is_timedout(now, startMillis, timeout) = Overdue(now, startMillis, ticksLeft)

C20_Step ==
    /\ pc = "loop"
         => (pc' = "done" /\ result' = GSMResponseTimeout)
                = Overdue(now, from, ticksLeft)
    /\ pc = "read"
         => (pc' = "returned" /\ ret' = NoByteRead)
                = (stream' = stream /\ Overdue(now', startMillis, ticksLeft'))

\* C20: the deadline test and the two operations follow the elapsed time
C20_Wrap == []C20_Deadline /\ [][C20_Step]_vars

\* a readResponse called one clock step before the wrap ended by timeout
\* behind the wrap
C20_Witness ==
    /\ pc = "done"
    /\ result = GSMResponseTimeout
    /\ from = Sub32(U32(0), U32(TickMs))
    /\ timeout = U32(LineTimeoutMs)
    /\ Wrapped(from)

\* a timedRead called one clock step before the wrap returned -1 behind it
C20_WitnessRead ==
    /\ pc = "returned"
    /\ ret = NoByteRead
    /\ startMillis = Sub32(U32(0), U32(TickMs))
    /\ timeout = U32(LineTimeoutMs)
    /\ Wrapped(startMillis)

\* a readResponse called one clock step before the wrap reads on behind the
\* wrap, its timeout not yet over
C20_WitnessOn ==
    /\ pc = "poll"
    /\ from = Sub32(U32(0), U32(TickMs))
    /\ timeout = U32(2 * LineTimeoutMs)
    /\ Wrapped(from)
    /\ ticksLeft = 0

====
